---- MODULE Spec2Model ----
(***************************************************************************)
(* A model of mincepie (src/mincepie.py): the master's TaskManager, the    *)
(* ServerChannel and Client ends of every connection with the two-way      *)
(* authentication of Protocol, and the frames in flight between them.      *)
(*                                                                         *)
(* One action is one handler run by the asyncore reactor: the accept of a  *)
(* connection, or found_terminator on one complete frame, with everything  *)
(* the handler calls.  Frames of one connection are consumed in the order  *)
(* they were pushed (asynchat).                                            *)
(***************************************************************************)
EXTENDS Naturals, Integers, Sequences, FiniteSets, TLC

\* ------------------------------------------------------------------ bounds
\* Number of connections the master accepts during a run.
NumChan == 2
\* Largest number of keys in the dataset.
MaxKeys == 2
\* Largest number of frames a peer that does not run Client/ServerChannel
\* pushes on one connection.
MaxInject == 3

Chan == 1..NumChan

\* -------------------------------------------------------------- constants
\* COMMAND (the wire vocabulary) and one name outside it.
COMMAND == {"challenge", "auth", "disconnect", "map", "reduce", "mapdone", "reducedone"}

\* TASK, in the order the phases are entered.
TASK == <<"START", "MAPPING", "REDUCING", "FINISHED">>

\* FLAGS.password of the master process, and a password that differs from it.
Password == "default"
WrongPassword == "other"

\* --------------------------------------------------------- wire strings
\* Hex strings that travel as the argument of challenge and auth, and the
\* values self.auth takes: None, a nonce, or "Done".
NoArg == [kind |-> "none", pw |-> "", n |-> 0]
NonceStr(n) == [kind |-> "nonce", pw |-> "", n |-> n]
DoneStr == [kind |-> "done", pw |-> "", n |-> 0]

\* os.urandom(20).encode("hex"): a fresh value per call; the master's for
\* connection c, the worker's for connection c, and one an outsider makes up.
NonceM(c) == NonceStr(10 + c)
NonceW(c) == NonceStr(20 + c)
NonceX == NonceStr(99)

\* hmac.new(password, msg, sha1).digest().encode("hex"); msg None (self.auth
\* before any challenge was issued) hashes the empty message, n = 0.
Hmac(pw, msg) == [kind |-> "mac", pw |-> pw, n |-> msg.n]

\* A frame: a command with an inline argument, a pickled payload, or neither.
NoData == <<>>
Frame(cmd, arg, data) == [cmd |-> cmd, arg |-> arg, data |-> data]
ArgFrame(cmd, arg) == Frame(cmd, arg, NoData)
DataFrame(cmd, data) == Frame(cmd, NoArg, data)
BareFrame(cmd) == Frame(cmd, NoArg, NoData)

\* ------------------------------------------------ datasets and the job
\* The dataset is what Reader.Read returns: keys in iteration order with a
\* value each.  Values are word sequences.
KeyOrder == <<"a", "b", "c", "d">>
DataKeys(n) == {KeyOrder[i] : i \in 1..n}
Words == {"x", "y"}
DataValues == {<<"y">>, <<"x", "x">>}

\* FLAGS.mapper / FLAGS.reducer: the identity job and the word count job.
Jobs == {"identity", "wordcount"}

Range(s) == {s[i] : i \in DOMAIN s}
Count(w, s) == Cardinality({i \in DOMAIN s : s[i] = w})
Ones(n) == [i \in 1..n |-> 1]

RECURSIVE Sum(_)
Sum(s) == IF s = <<>> THEN 0 ELSE Head(s) + Sum(Tail(s))

\* The dict call_map builds from mapper.Map(key, value): the emitted values
\* grouped by emitted key.
MapOutput(j, key, value) ==
    IF j = "identity"
    THEN (key :> <<value>>)
    ELSE [w \in Range(value) |-> Ones(Count(w, value))]

\* reducer.Reduce(key, values).
ReduceOutput(j, key, values) ==
    IF j = "identity" THEN values ELSE Sum(values)

\* All orders in which a dict with key set S may be iterated.
Orders(S) ==
    {s \in [1..Cardinality(S) -> S] : \A i, k \in DOMAIN s : i # k => s[i] # s[k]}

RECURSIVE SeqOfKeys(_, _)
SeqOfKeys(n, i) == IF i > n THEN <<>> ELSE <<KeyOrder[i]>> \o SeqOfKeys(n, i + 1)

\* ---------------------------------------------------------------- state
VARIABLES
    datasource,  \* Server._datasource: dataset key -> value
    job,         \* FLAGS.mapper and FLAGS.reducer of the run
    tm,          \* the TaskManager object
    listening,   \* the Server's listening socket is open
    sconn,       \* ServerChannel c: "none" | "open" | "closed"
    sauth,       \* ServerChannel c: self.auth
    wconn,       \* the worker end of connection c: "none" | "open" | "closed"
    wauth,       \* Client of connection c: self.auth
    wpass,       \* FLAGS.password of the worker process of connection c
    kind,        \* who runs the two ends of connection c
    toWorker,    \* frames pushed by the master end, not yet consumed
    toMaster,    \* frames pushed by the worker end, not yet consumed
    injected,    \* number of frames pushed so far by ends that run other code
    issued,      \* history: every task next_task has returned
    accepted,    \* history: every done-report the TaskManager took
    held,        \* history: what next_task returned last to ServerChannel c
    wire,        \* history: the handshake of connection c as it was sent
    proto,       \* one authenticated Protocol object and the bytes sent to it
    last         \* history: the handler that ran last and what it did

vars == <<datasource, job, tm, listening, sconn, sauth, wconn, wauth, wpass,
          kind, toWorker, toMaster, injected, issued, held,
          accepted, wire, proto, last>>

\* The variables no handler of the master end writes, and those no handler
\* of the worker end writes.
notMaster == <<datasource, job, wconn, wauth, wpass, kind, injected, proto>>
notWorker == <<datasource, job, tm, listening, sconn, sauth, wpass, kind,
               injected, issued, held, accepted, proto>>

\* ---------------------------------------------------------- TaskManager
\* TaskManager.__init__.  The attributes next_task creates later hold empty
\* values until then; HasMapAttrs / HasReduceAttrs say whether they exist.
\* phases is history: every value self.state was assigned, in order.
TaskManagerInit ==
    [state |-> "START", map_iter |-> <<>>, working_maps |-> {},
     map_results |-> <<>>, reduce_iter |-> <<>>, working_reduces |-> {},
     results |-> <<>>, phases |-> <<"START">>]

HasMapAttrs(t) == t.state # "START"
HasReduceAttrs(t) == t.state \in {"REDUCING", "FINISHED"}

SetState(t, s) == [t EXCEPT !.state = s, !.phases = Append(@, s)]

\* next_task, lines 369-375.
StartStep(t) ==
    IF t.state = "START"
    THEN SetState([t EXCEPT !.map_iter = SeqOfKeys(Cardinality(DOMAIN datasource), 1),
                            !.working_maps = {},
                            !.map_results = <<>>], "MAPPING")
    ELSE t

NoReturn == [cmd |-> "", data |-> NoData]
Return(cmd, data) == [cmd |-> cmd, data |-> data]
Outcome(t, ret) == [tm |-> t, ret |-> ret]

\* MappingStep re-issuing any key of the dataset, not one still in flight.
MappingStepAnyKey(t) ==
    IF t.state # "MAPPING" THEN {Outcome(t, NoReturn)}
    ELSE IF t.map_iter # <<>>
    THEN LET map_key == Head(t.map_iter) IN
         {Outcome([t EXCEPT !.map_iter = Tail(@),
                            !.working_maps = @ \cup {map_key}],
                  Return("map", <<map_key, datasource[map_key]>>))}
    ELSE IF t.working_maps # {}
    THEN {Outcome(t, Return("map", <<key, datasource[key]>>)) : key \in DOMAIN datasource}
    ELSE {Outcome(SetState([t EXCEPT !.reduce_iter = ord,
                                     !.working_reduces = {},
                                     !.results = <<>>], "REDUCING"), NoReturn)
            : ord \in Orders(DOMAIN t.map_results)}

\* MappingStep that returns nothing once every key was dispatched and some
\* are still in flight.
MappingStepNoReissue(t) ==
    IF t.state # "MAPPING" THEN {Outcome(t, NoReturn)}
    ELSE IF t.map_iter # <<>>
    THEN LET map_key == Head(t.map_iter) IN
         {Outcome([t EXCEPT !.map_iter = Tail(@),
                            !.working_maps = @ \cup {map_key}],
                  Return("map", <<map_key, datasource[map_key]>>))}
    ELSE IF t.working_maps # {}
    THEN {Outcome(t, Return("", NoData))}
    ELSE {Outcome(SetState([t EXCEPT !.reduce_iter = ord,
                                     !.working_reduces = {},
                                     !.results = <<>>], "REDUCING"), NoReturn)
            : ord \in Orders(DOMAIN t.map_results)}

\* MappingStep with the phase taken straight to FINISHED when the maps are
\* done.
MappingStepSkipsReduce(t) ==
    IF t.state # "MAPPING" THEN {Outcome(t, NoReturn)}
    ELSE IF t.map_iter # <<>>
    THEN LET map_key == Head(t.map_iter) IN
         {Outcome([t EXCEPT !.map_iter = Tail(@),
                            !.working_maps = @ \cup {map_key}],
                  Return("map", <<map_key, datasource[map_key]>>))}
    ELSE IF t.working_maps # {}
    THEN {Outcome(t, Return("map", <<key, datasource[key]>>)) : key \in t.working_maps}
    ELSE {Outcome(SetState([t EXCEPT !.working_reduces = {}, !.results = <<>>],
                           "FINISHED"), NoReturn)}

\* next_task, lines 377-395: the outcomes of the MAPPING block.
MappingStep(t) ==
    IF t.state # "MAPPING" THEN {Outcome(t, NoReturn)}
    ELSE IF t.map_iter # <<>>
    THEN LET map_key == Head(t.map_iter) IN
         {Outcome([t EXCEPT !.map_iter = Tail(@),
                            !.working_maps = @ \cup {map_key}],
                  Return("map", <<map_key, datasource[map_key]>>))}
    ELSE IF t.working_maps # {}
    THEN {Outcome(t, Return("map", <<key, datasource[key]>>)) : key \in t.working_maps}
    ELSE {Outcome(SetState([t EXCEPT !.reduce_iter = ord,
                                     !.working_reduces = {},
                                     !.results = <<>>], "REDUCING"), NoReturn)
            : ord \in Orders(DOMAIN t.map_results)}

\* ReducingStep that finishes as soon as every key was dispatched.
ReducingStepFinishesEarly(t) ==
    IF t.state # "REDUCING" THEN {Outcome(t, NoReturn)}
    ELSE IF t.reduce_iter # <<>>
    THEN LET k == Head(t.reduce_iter) IN
         {Outcome([t EXCEPT !.reduce_iter = Tail(@),
                            !.working_reduces = @ \cup {k}],
                  Return("reduce", <<k, t.map_results[k]>>))}
    ELSE {Outcome(SetState(t, "FINISHED"), NoReturn)}

\* next_task, lines 397-408: the outcomes of the REDUCING block.
ReducingStep(t) ==
    IF t.state # "REDUCING" THEN {Outcome(t, NoReturn)}
    ELSE IF t.reduce_iter # <<>>
    THEN LET k == Head(t.reduce_iter) IN
         {Outcome([t EXCEPT !.reduce_iter = Tail(@),
                            !.working_reduces = @ \cup {k}],
                  Return("reduce", <<k, t.map_results[k]>>))}
    ELSE IF t.working_reduces # {}
    THEN {Outcome(t, Return("reduce", <<key, t.map_results[key]>>))
            : key \in t.working_reduces}
    ELSE {Outcome(SetState(t, "FINISHED"), NoReturn)}

\* next_task, lines 409-411.
FinishedStep(t) ==
    IF t.state = "FINISHED" THEN Return("disconnect", NoData) ELSE NoReturn

\* TaskManager.next_task: every (new TaskManager, returned command) the call
\* can produce from t; random.choice and the dict order are the choices.
next_task(t) ==
    UNION { IF m.ret.cmd # "" THEN {m}
            ELSE UNION { IF r.ret.cmd # "" THEN {r}
                         ELSE {Outcome(r.tm, FinishedStep(r.tm))}
                         : r \in ReducingStep(m.tm) }
            : m \in MappingStep(StartStep(t)) }

\* TaskManager.map_done raises AttributeError before next_task created
\* working_maps; TaskManager.reduce_done likewise for working_reduces.
MapDoneRaises(t) == ~HasMapAttrs(t)
ReduceDoneRaises(t) == ~HasReduceAttrs(t)

\* The loop of lines 418-421 assigning the reported values instead of
\* extending the list already there.
ExtendResultsOverwrites(mr, res) ==
    [k \in DOMAIN mr \cup DOMAIN res |->
        IF k \in DOMAIN res THEN res[k] ELSE mr[k]]

\* map_results after the loop of lines 418-421 over data[1].
ExtendResults(mr, res) ==
    [k \in DOMAIN mr \cup DOMAIN res |->
        (IF k \in DOMAIN mr THEN mr[k] ELSE <<>>) \o
        (IF k \in DOMAIN res THEN res[k] ELSE <<>>)]

\* map_done with the guard asking whether the key is one of the dataset's.
map_done_guards_dataset(t, data) ==
    IF MapDoneRaises(t) THEN t
    ELSE IF data[1] \notin DOMAIN datasource THEN t
    ELSE [t EXCEPT !.map_results = ExtendResults(@, data[2]),
                   !.working_maps = @ \ {data[1]}]

\* map_done without the working-set guard of lines 416-417.
map_done_unguarded(t, data) ==
    IF MapDoneRaises(t) THEN t
    ELSE [t EXCEPT !.map_results = ExtendResults(@, data[2]),
                   !.working_maps = @ \ {data[1]}]

\* TaskManager.map_done(data), data = (key, results).
map_done(t, data) ==
    IF MapDoneRaises(t) THEN t
    ELSE IF data[1] \notin t.working_maps THEN t
    ELSE [t EXCEPT !.map_results = ExtendResults(@, data[2]),
                   !.working_maps = @ \ {data[1]}]

\* reduce_done that keeps the entry Final Results already hold for the key.
reduce_done_keeps_first(t, data) ==
    IF ReduceDoneRaises(t) THEN t
    ELSE IF data[1] \notin t.working_reduces THEN t
    ELSE [t EXCEPT !.results = [k \in DOMAIN @ \cup {data[1]} |->
                                   IF k \in DOMAIN @ THEN @[k] ELSE data[2]],
                   !.working_reduces = @ \ {data[1]}]

\* reduce_done that keeps the key in the working set.
reduce_done_keeps_key(t, data) ==
    IF ReduceDoneRaises(t) THEN t
    ELSE IF data[1] \notin t.working_reduces THEN t
    ELSE [t EXCEPT !.results = [k \in DOMAIN @ \cup {data[1]} |->
                                   IF k = data[1] THEN data[2] ELSE @[k]]]

\* TaskManager.reduce_done(data), data = (key, value).
reduce_done(t, data) ==
    IF ReduceDoneRaises(t) THEN t
    ELSE IF data[1] \notin t.working_reduces THEN t
    ELSE [t EXCEPT !.results = [k \in DOMAIN @ \cup {data[1]} |->
                                   IF k = data[1] THEN data[2] ELSE @[k]],
                   !.working_reduces = @ \ {data[1]}]

\* ------------------------------------------------------------ handlers
\* What one handler run did; the value of the history variable last.
NoEvent ==
    [op |-> "init", c |-> 0, cmd |-> "", authed |-> FALSE, key |-> "",
     report |-> "", task |-> "", tkey |-> "", ran |-> "", closed |-> FALSE]
Event(op, c, f, authed) ==
    [NoEvent EXCEPT !.op = op, !.c = c, !.cmd = f.cmd, !.authed = authed,
                    !.key = IF f.data = NoData THEN "" ELSE f.data[1]]

\* Protocol.send_command(command, data) as start_new_task calls it: a
\* payload frame when data is not None, a bare frame otherwise.
TaskFrame(ret) ==
    IF ret.data = NoData THEN BareFrame(ret.cmd) ELSE DataFrame(ret.cmd, ret.data)

\* The effect of a handler of the master end: the channel's new auth and
\* connection state, the frames pushed, the new TaskManager, whether the
\* listening socket is still open, what next_task returned if it was
\* called, and the event.
MEffect(auth, conn, out, t, lis, ret, ev) ==
    [auth |-> auth, conn |-> conn, out |-> out, tm |-> t, listening |-> lis,
     ret |-> ret, ev |-> ev]

\* handle_close that also withdraws the task the channel was given last.
S_handle_close_withdraws(c, ev) ==
    MEffect(sauth[c], "closed", <<>>,
            IF held[c].cmd = "map"
            THEN [tm EXCEPT !.working_maps = @ \ {held[c].data[1]}]
            ELSE tm,
            listening, NoReturn, [ev EXCEPT !.closed = TRUE])

\* ServerChannel.handle_close (also reached through asyncore's handle_error
\* when a handler raises).
S_handle_close(c, ev) ==
    MEffect(sauth[c], "closed", <<>>, tm, listening, NoReturn,
            [ev EXCEPT !.closed = TRUE])

\* ServerChannel.start_new_task after `before` was pushed and the
\* TaskManager became t: next_task, then send_command of what it returned.
\* next_task closes the listening socket when it finds the phase FINISHED.
S_start_new_task(c, t, before, ev) ==
    { MEffect(sauth[c], "open", before \o <<TaskFrame(o.ret)>>, o.tm,
              listening /\ o.ret.cmd # "disconnect", o.ret,
              [ev EXCEPT !.task = o.ret.cmd,
                         !.tkey = IF o.ret.data = NoData THEN "" ELSE o.ret.data[1]])
        : o \in next_task(t) }

\* Protocol.respond_to_challenge on a ServerChannel: the auth reply, then
\* post_auth_init, which is start_new_task.
S_respond_to_challenge(c, f, ev) ==
    S_start_new_task(c, tm, <<ArgFrame("auth", Hmac(Password, f.arg))>>, ev)

\* Protocol.verify_auth on a ServerChannel.
S_verify_auth(c, f, ev) ==
    IF f.arg = Hmac(Password, sauth[c])
    THEN {MEffect(DoneStr, "open", <<>>, tm, listening, NoReturn, ev)}
    ELSE {S_handle_close(c, ev)}

\* map_done that asks for a new task only when the report was taken.
S_map_done_no_task_on_discard(c, f, ev) ==
    IF f.data = NoData \/ MapDoneRaises(tm)
    THEN {S_handle_close(c, [ev EXCEPT !.report = "raised"])}
    ELSE IF f.data[1] \in tm.working_maps
    THEN S_start_new_task(c, map_done(tm, f.data), <<>>, [ev EXCEPT !.report = "accepted"])
    ELSE {MEffect(sauth[c], "open", <<>>, tm, listening, NoReturn,
                  [ev EXCEPT !.report = "discarded"])}

\* ServerChannel.map_done / reduce_done: the TaskManager's call, then
\* start_new_task; an exception of the call closes the channel instead.
S_map_done(c, f, ev) ==
    IF f.data = NoData \/ MapDoneRaises(tm)
    THEN {S_handle_close(c, [ev EXCEPT !.report = "raised"])}
    ELSE S_start_new_task(c, map_done(tm, f.data), <<>>,
            [ev EXCEPT !.report = IF f.data[1] \in tm.working_maps
                                  THEN "accepted" ELSE "discarded"])

S_reduce_done(c, f, ev) ==
    IF f.data = NoData \/ ReduceDoneRaises(tm)
    THEN {S_handle_close(c, [ev EXCEPT !.report = "raised"])}
    ELSE S_start_new_task(c, reduce_done(tm, f.data), <<>>,
            [ev EXCEPT !.report = IF f.data[1] \in tm.working_reduces
                                  THEN "accepted" ELSE "discarded"])

\* process_unauthed_command that also knows the done-reports.
S_process_unauthed_command_open(c, f, ev) ==
    CASE f.cmd = "challenge" -> S_respond_to_challenge(c, f, ev)
      [] f.cmd = "auth" -> S_verify_auth(c, f, ev)
      [] f.cmd = "mapdone" -> S_map_done(c, f, ev)
      [] f.cmd = "reducedone" -> S_reduce_done(c, f, ev)
      [] OTHER -> {S_handle_close(c, ev)}

\* Protocol.process_unauthed_command on a ServerChannel.
S_process_unauthed_command(c, f, ev) ==
    CASE f.cmd = "challenge" -> S_respond_to_challenge(c, f, ev)
      [] f.cmd = "auth" -> S_verify_auth(c, f, ev)
      [] OTHER -> {S_handle_close(c, ev)}

\* ServerChannel.process_command, falling back to Protocol.process_command.
S_process_command(c, f, ev) ==
    CASE f.cmd = "mapdone" -> S_map_done(c, f, ev)
      [] f.cmd = "reducedone" -> S_reduce_done(c, f, ev)
      [] f.cmd = "challenge" -> S_respond_to_challenge(c, f, ev)
      [] OTHER -> {S_handle_close(c, ev)}

\* Protocol.found_terminator on a ServerChannel, for one whole frame.  In
\* the authenticated state a header with an inline argument that is not a
\* challenge is no payload length: int() raises and the channel closes.
S_found_terminator(c, f) ==
    IF sauth[c] # DoneStr
    THEN S_process_unauthed_command(c, f, Event("master_recv", c, f, FALSE))
    ELSE IF f.cmd # "challenge" /\ f.arg # NoArg
    THEN {S_handle_close(c, Event("master_recv", c, f, TRUE))}
    ELSE S_process_command(c, f, Event("master_recv", c, f, TRUE))

\* The effect of a handler of the worker end.
WEffect(auth, conn, out, ev) == [auth |-> auth, conn |-> conn, out |-> out, ev |-> ev]

\* Client.handle_close (also reached through asyncore's handle_error when a
\* handler raises).
C_handle_close(c, ev) == WEffect(wauth[c], "closed", <<>>, [ev EXCEPT !.closed = TRUE])

\* respond_to_challenge that issues the worker's challenge before the reply.
C_respond_to_challenge_first(c, f, ev) ==
    LET reply == ArgFrame("auth", Hmac(wpass[c], f.arg)) IN
    IF wauth[c] = NoArg
    THEN {WEffect(NonceW(c), "open", <<ArgFrame("challenge", NonceW(c)), reply>>, ev)}
    ELSE {WEffect(wauth[c], "open", <<reply>>, ev)}

\* Protocol.respond_to_challenge on a Client: the auth reply, then
\* Client.post_auth_init, which issues the worker's own challenge when
\* self.auth is still None.
C_respond_to_challenge(c, f, ev) ==
    LET reply == ArgFrame("auth", Hmac(wpass[c], f.arg)) IN
    IF wauth[c] = NoArg
    THEN {WEffect(NonceW(c), "open", <<reply, ArgFrame("challenge", NonceW(c))>>, ev)}
    ELSE {WEffect(wauth[c], "open", <<reply>>, ev)}

\* Protocol.verify_auth on a Client.
C_verify_auth(c, f, ev) ==
    IF f.arg = Hmac(wpass[c], wauth[c])
    THEN {WEffect(DoneStr, "open", <<>>, ev)}
    ELSE {C_handle_close(c, ev)}

\* Client.call_map: the mapper runs; its results go back as mapdone.  No
\* exception of the mapper is caught here, so one that raises ends in
\* handle_close and nothing is sent.  A frame without payload raises before
\* the mapper is called.
C_call_map(c, f, ev) ==
    IF f.data = NoData THEN {C_handle_close(c, ev)}
    ELSE {WEffect(wauth[c], "open",
                  <<DataFrame("mapdone",
                       <<f.data[1], MapOutput(job, f.data[1], f.data[2])>>)>>,
                  [ev EXCEPT !.ran = "ok"]),
          C_handle_close(c, [ev EXCEPT !.ran = "raised"])}

\* Client.call_reduce.
C_call_reduce(c, f, ev) ==
    IF f.data = NoData THEN {C_handle_close(c, ev)}
    ELSE {WEffect(wauth[c], "open",
                  <<DataFrame("reducedone",
                       <<f.data[1], ReduceOutput(job, f.data[1], f.data[2])>>)>>,
                  [ev EXCEPT !.ran = "ok"]),
          C_handle_close(c, [ev EXCEPT !.ran = "raised"])}

\* Protocol.process_unauthed_command on a Client.
C_process_unauthed_command(c, f, ev) ==
    CASE f.cmd = "challenge" -> C_respond_to_challenge(c, f, ev)
      [] f.cmd = "auth" -> C_verify_auth(c, f, ev)
      [] OTHER -> {C_handle_close(c, ev)}

\* Client.process_command, falling back to Protocol.process_command.
C_process_command(c, f, ev) ==
    CASE f.cmd = "map" -> C_call_map(c, f, ev)
      [] f.cmd = "reduce" -> C_call_reduce(c, f, ev)
      [] f.cmd = "challenge" -> C_respond_to_challenge(c, f, ev)
      [] OTHER -> {C_handle_close(c, ev)}

\* Protocol.found_terminator on a Client, for one whole frame.
C_found_terminator(c, f) ==
    IF wauth[c] # DoneStr
    THEN C_process_unauthed_command(c, f, Event("worker_recv", c, f, FALSE))
    ELSE IF f.cmd # "challenge" /\ f.arg # NoArg
    THEN {C_handle_close(c, Event("worker_recv", c, f, TRUE))}
    ELSE C_process_command(c, f, Event("worker_recv", c, f, TRUE))

\* ------------------------------------------------------ frames as bytes
\* What send_command pushes and what found_terminator reads, byte by byte.
\* A str is a sequence of one-character strings; None and the empty str
\* are both the empty sequence (both are false in `if arg:`, `elif data:`
\* and `elif length:`).
SEPARATOR == ":"
TERMINATOR == "\n"

Digits == <<"0", "1", "2", "3", "4", "5", "6", "7", "8", "9">>
IsDigit(b) == \E i \in 1..10 : Digits[i] = b
DigitValue(b) == (CHOOSE i \in 1..10 : Digits[i] = b) - 1

\* str(n) of a length, and int(s): ValueError unless s is a decimal number.
RECURSIVE str(_)
str(n) ==
    IF n < 10 THEN <<Digits[n + 1]>>
    ELSE str(n \div 10) \o <<Digits[(n % 10) + 1]>>

IntRaises(s) == s = <<>> \/ \E i \in 1..Len(s) : ~IsDigit(s[i])

RECURSIVE int(_)
int(s) ==
    IF s = <<>> THEN 0
    ELSE int(SubSeq(s, 1, Len(s) - 1)) * 10 + DigitValue(s[Len(s)])

\* s.find(b): the first position of b in s, 0 when there is none (-1 in
\* Python, whose positions start at 0).
find(s, b) ==
    IF \E i \in 1..Len(s) : s[i] = b
    THEN CHOOSE i \in 1..Len(s) : s[i] = b /\ \A j \in 1..(i - 1) : s[j] # b
    ELSE 0

\* The command strings of COMMAND that travel in this part of the model.
Spelling ==
    ("challenge" :> <<"c", "h", "a", "l", "l", "e", "n", "g", "e">>) @@
    ("disconnect" :> <<"d", "i", "s", "c", "o", "n", "n", "e", "c", "t">>) @@
    ("map" :> <<"m", "a", "p">>) @@
    ("mapdone" :> <<"m", "a", "p", "d", "o", "n", "e">>)

Name(bytes) ==
    IF \E cmd \in DOMAIN Spelling : Spelling[cmd] = bytes
    THEN CHOOSE cmd \in DOMAIN Spelling : Spelling[cmd] = bytes
    ELSE "?"

\* pickle.dumps of a (key, value) pair of strs and pickle.loads of it, in
\* the shape of pickle's text protocol: an opening mark, the items each
\* closed by a newline, and the stop mark. The bytes of a pickle hold
\* newlines, and may hold colons and digits.
dumps(data) ==
    <<"(">> \o data[1] \o <<TERMINATOR>> \o data[2] \o <<TERMINATOR, ".">>

loads(message) ==
    LET body == SubSeq(message, 2, Len(message))
        i == find(body, TERMINATOR)
        rest == SubSeq(body, i + 1, Len(body))
        j == find(rest, TERMINATOR)
    IN  <<SubSeq(body, 1, i - 1), SubSeq(rest, 1, j - 1)>>

\* Protocol.send_command: the bytes handed to push.
send_command(command, data, arg) ==
    LET encoded == Spelling[command] \o <<SEPARATOR>> IN
    IF arg # <<>> THEN encoded \o arg \o <<TERMINATOR>>
    ELSE IF data # NoData
         THEN LET pdata == dumps(data) IN
              encoded \o str(Len(pdata)) \o <<TERMINATOR>> \o pdata
         ELSE encoded \o <<TERMINATOR>>

\* Protocol.decode_command: the two sides of the first separator.
DecodeRaises(message) == find(message, SEPARATOR) = 0

decode_command(message) ==
    LET idx == find(message, SEPARATOR) IN
    <<SubSeq(message, 1, idx - 1), SubSeq(message, idx + 1, Len(message))>>

\* The terminator of the channel: a str, or a number of bytes.
Newline == [num |-> FALSE, n |-> 0]
Bytes(n) == [num |-> TRUE, n |-> n]

\* A call process_command(command, data). Its second argument is a str
\* after challenge and an unpickled object after a payload; the two kinds
\* are kept in two fields.
Dispatch(command, arg, data) == [cmd |-> command, arg |-> arg, data |-> data]

\* A Protocol object after its handshake, the bytes pushed to it that its
\* socket has not read yet (pipe), and two histories: the calls of
\* send_command at the other end and the calls of process_command here.
ProtocolInit ==
    [auth |-> DoneStr,
     terminator |-> Newline,
     buffer |-> <<>>,
     mid_command |-> <<>>,
     ac_in_buffer |-> <<>>,
     closed |-> FALSE,
     pipe |-> <<>>,
     sent |-> <<>>,
     dispatched |-> <<>>]

process_command(r, command, arg, data) ==
    [r EXCEPT !.dispatched = Append(@, Dispatch(Name(command), arg, data))]

\* found_terminator of an authenticated channel as it would be without the
\* branch for challenge.
found_terminator_any_length(r) ==
    LET message == r.buffer IN
    IF r.mid_command = <<>>
    THEN IF DecodeRaises(message) THEN [r EXCEPT !.closed = TRUE]
         ELSE LET command == decode_command(message)[1]
                  length == decode_command(message)[2]
              IN  IF length # <<>>
                  THEN IF IntRaises(length) THEN [r EXCEPT !.closed = TRUE]
                       ELSE [r EXCEPT !.terminator = Bytes(int(length)),
                                      !.mid_command = command,
                                      !.buffer = <<>>]
                  ELSE [process_command(r, command, <<>>, NoData)
                            EXCEPT !.buffer = <<>>]
    ELSE [process_command([r EXCEPT !.terminator = Newline,
                                    !.mid_command = <<>>],
                          r.mid_command, <<>>, loads(message))
              EXCEPT !.buffer = <<>>]

\* Protocol.found_terminator when self.auth is "Done". An exception leaves
\* the handler before the buffer is cleaned and closes the channel.
found_terminator(r) ==
    LET message == r.buffer IN
    IF r.mid_command = <<>>
    THEN IF DecodeRaises(message) THEN [r EXCEPT !.closed = TRUE]
         ELSE LET command == decode_command(message)[1]
                  length == decode_command(message)[2]
              IN  IF command = Spelling["challenge"]
                  THEN [process_command(r, command, length, NoData)
                            EXCEPT !.buffer = <<>>]
                  ELSE IF length # <<>>
                  THEN IF IntRaises(length) THEN [r EXCEPT !.closed = TRUE]
                       ELSE [r EXCEPT !.terminator = Bytes(int(length)),
                                      !.mid_command = command,
                                      !.buffer = <<>>]
                  ELSE [process_command(r, command, <<>>, NoData)
                            EXCEPT !.buffer = <<>>]
    ELSE [process_command([r EXCEPT !.terminator = Newline,
                                    !.mid_command = <<>>],
                          r.mid_command, <<>>, loads(message))
              EXCEPT !.buffer = <<>>]

\* One turn of the loop of async_chat.handle_read over the bytes received:
\* with a number as terminator, collect that many bytes (fewer if fewer are
\* there, counting down) and call found_terminator when none is left to
\* read; with the newline as terminator, collect up to it, drop it and call
\* found_terminator, or collect everything when there is no newline yet.
\* collect_incoming_data appends to self.buffer.
handle_read(r) ==
    LET lb == Len(r.ac_in_buffer)
        collect(k) == [r EXCEPT !.buffer = @ \o SubSeq(r.ac_in_buffer, 1, k)]
    IN  IF r.terminator.num
        THEN LET n == r.terminator.n IN
             IF n = 0 \/ lb < n
             THEN [collect(lb) EXCEPT !.ac_in_buffer = <<>>,
                                      !.terminator = Bytes(IF n = 0 THEN 0 ELSE n - lb)]
             ELSE found_terminator(
                      [collect(n) EXCEPT !.ac_in_buffer = SubSeq(@, n + 1, lb),
                                         !.terminator = Bytes(0)])
        ELSE LET index == find(r.ac_in_buffer, TERMINATOR) IN
             IF index = 0
             THEN [collect(lb) EXCEPT !.ac_in_buffer = <<>>]
             ELSE found_terminator(
                      [collect(index - 1)
                           EXCEPT !.ac_in_buffer = SubSeq(@, index + 1, lb)])

\* -------------------------------------------------------------- actions
\* The history of what the two ends of a connection have sent: who sent it
\* and what, for every challenge and auth frame, and for the one frame that
\* follows the first four; what next_task can return is written "task".
SentCmd(f) == IF f.cmd \in {"map", "reduce", "disconnect"} THEN "task" ELSE f.cmd

RECURSIVE Sent(_, _, _)
Sent(w, from, out) ==
    IF out = <<>> THEN w
    ELSE Sent(IF Head(out).cmd \in {"challenge", "auth"} \/ Len(w) = 4
              THEN Append(w, [from |-> from, cmd |-> SentCmd(Head(out))])
              ELSE w,
              from, Tail(out))

\* Frames pushed towards an end that has closed are lost.
Push(q, c, out, peer) ==
    IF peer[c] = "closed" THEN q ELSE [q EXCEPT ![c] = @ \o out]

\* A connection is made.  Towards the master (Server.handle_accept) the
\* ServerChannel is created and start_auth sends the master's challenge; a
\* Client (Client.run_client) connects and waits.  k says who runs the two
\* ends: "client" is a Client talking to the master, "outsider" is other
\* code talking to the master, "rogue" is a Client whose FLAGS.address is
\* not the master.  Connections are numbered in the order they are made.
Connect(c, k, pw) ==
    /\ sconn[c] = "none" /\ wconn[c] = "none"
    /\ \A d \in Chan : d < c => kind[d] # "none"
    /\ k = "rogue" \/ listening
    /\ kind' = [kind EXCEPT ![c] = k]
    /\ wpass' = [wpass EXCEPT ![c] = pw]
    /\ sconn' = [sconn EXCEPT ![c] = IF k = "rogue" THEN @ ELSE "open"]
    /\ sauth' = [sauth EXCEPT ![c] = IF k = "rogue" THEN @ ELSE NonceM(c)]
    /\ wconn' = [wconn EXCEPT ![c] = IF k = "outsider" THEN @ ELSE "open"]
    /\ toWorker' = [toWorker EXCEPT ![c] =
                       IF k = "rogue" THEN @ ELSE <<ArgFrame("challenge", NonceM(c))>>]
    /\ wire' = [wire EXCEPT ![c] =
                   IF k = "rogue" THEN <<>>
                   ELSE Sent(<<>>, "master", <<ArgFrame("challenge", NonceM(c))>>)]
    /\ last' = [NoEvent EXCEPT !.op = "connect", !.c = c]
    /\ UNCHANGED <<datasource, job, tm, listening, wauth, toMaster, injected,
                   issued, held, accepted, proto>>

\* A worker with the master's password connects.
Accept(c) == Connect(c, "client", Password)

\* The reactor runs found_terminator of ServerChannel c on its next frame.
\* Frames are pushed to the peer unless the peer has closed.
MasterRecv(c) ==
    /\ sconn[c] = "open"
    /\ toMaster[c] # <<>>
    /\ \E e \in S_found_terminator(c, Head(toMaster[c])) :
          /\ sauth' = [sauth EXCEPT ![c] = e.auth]
          /\ sconn' = [sconn EXCEPT ![c] = e.conn]
          /\ tm' = e.tm
          /\ listening' = e.listening
          /\ toMaster' = [toMaster EXCEPT ![c] = IF e.conn = "closed" THEN <<>> ELSE Tail(@)]
          /\ toWorker' = Push(toWorker, c, e.out, wconn)
          /\ wire' = [wire EXCEPT ![c] = Sent(@, "master", e.out)]
          /\ issued' = issued \cup (IF e.ret.cmd \in {"map", "reduce"} THEN {e.ret} ELSE {})
          /\ accepted' = accepted \cup (IF e.ev.report = "accepted"
                                        THEN {[cmd |-> e.ev.cmd, key |-> e.ev.key]}
                                        ELSE {})
          /\ held' = [held EXCEPT ![c] = IF e.ret.cmd # "" THEN e.ret ELSE @]
          /\ last' = e.ev
    /\ UNCHANGED notMaster

\* The reactor of worker c runs found_terminator of its Client on the next
\* frame; a task frame stays queued for as long as the worker has not
\* finished it.
WorkerRecv(c) ==
    /\ wconn[c] = "open"
    /\ toWorker[c] # <<>>
    /\ \E e \in C_found_terminator(c, Head(toWorker[c])) :
          /\ wauth' = [wauth EXCEPT ![c] = e.auth]
          /\ wconn' = [wconn EXCEPT ![c] = e.conn]
          /\ toWorker' = [toWorker EXCEPT ![c] = IF e.conn = "closed" THEN <<>> ELSE Tail(@)]
          /\ toMaster' = Push(toMaster, c, e.out, sconn)
          /\ wire' = [wire EXCEPT ![c] = Sent(@, "worker", e.out)]
          /\ last' = e.ev
    /\ UNCHANGED notWorker

\* The worker process of connection c dies while it works on a task; its
\* socket closes.
WorkerCrash(c) ==
    /\ wconn[c] = "open"
    /\ toWorker[c] # <<>>
    /\ Head(toWorker[c]).cmd \in {"map", "reduce"}
    /\ wconn' = [wconn EXCEPT ![c] = "closed"]
    /\ toWorker' = [toWorker EXCEPT ![c] = <<>>]
    /\ last' = [NoEvent EXCEPT !.op = "crash", !.c = c, !.closed = TRUE]
    /\ UNCHANGED <<wauth, toMaster, wire>>
    /\ UNCHANGED notWorker

\* ServerChannel c has read everything its peer sent and finds the socket
\* closed by the peer: asyncore calls handle_close.
MasterSeesClose(c) ==
    /\ sconn[c] = "open"
    /\ wconn[c] = "closed"
    /\ toMaster[c] = <<>>
    /\ LET e == S_handle_close(c, [NoEvent EXCEPT !.op = "master_eof", !.c = c]) IN
          /\ sauth' = [sauth EXCEPT ![c] = e.auth]
          /\ sconn' = [sconn EXCEPT ![c] = e.conn]
          /\ tm' = e.tm
          /\ listening' = e.listening
          /\ last' = e.ev
    /\ UNCHANGED <<toWorker, toMaster, issued, held, accepted, wire>>
    /\ UNCHANGED notMaster

\* Likewise for the Client of connection c.
WorkerSeesClose(c) ==
    /\ wconn[c] = "open"
    /\ sconn[c] = "closed"
    /\ toWorker[c] = <<>>
    /\ LET e == C_handle_close(c, [NoEvent EXCEPT !.op = "worker_eof", !.c = c]) IN
          /\ wauth' = [wauth EXCEPT ![c] = e.auth]
          /\ wconn' = [wconn EXCEPT ![c] = e.conn]
          /\ last' = e.ev
    /\ UNCHANGED <<toWorker, toMaster, wire>>
    /\ UNCHANGED notWorker

\* ------------------------------------------------------- specification
\* The datasets and jobs of a run: every dataset of at most MaxKeys keys
\* for the word count job, and one value per key for the identity job, whose
\* emitted keys do not depend on the values.
Inputs ==
    \E n \in 0..MaxKeys :
        \/ job = "wordcount" /\ datasource \in [DataKeys(n) -> DataValues]
        \/ job = "identity" /\ datasource \in [DataKeys(n) -> {<<"y">>}]

\* The state after Server.set_datasource and before any connection; every
\* worker runs Client with the master's password.
Init ==
    /\ Inputs
    /\ tm = TaskManagerInit
    /\ listening = TRUE
    /\ sconn = [c \in Chan |-> "none"]
    /\ sauth = [c \in Chan |-> NoArg]
    /\ wconn = [c \in Chan |-> "none"]
    /\ wauth = [c \in Chan |-> NoArg]
    /\ wpass = [c \in Chan |-> Password]
    /\ kind = [c \in Chan |-> "none"]
    /\ toWorker = [c \in Chan |-> <<>>]
    /\ toMaster = [c \in Chan |-> <<>>]
    /\ injected = 0
    /\ issued = {}
    /\ accepted = {}
    /\ wire = [c \in Chan |-> <<>>]
    /\ proto = ProtocolInit
    /\ held = [c \in Chan |-> NoReturn]
    /\ last = NoEvent

Next ==
    \E c \in Chan :
        \/ Accept(c)
        \/ MasterRecv(c)
        \/ WorkerRecv(c)
        \/ WorkerCrash(c)
        \/ MasterSeesClose(c)

Spec == Init /\ [][Next]_vars

\* ------------------------------------------------ a worker that lasts
\* The run in which the worker of the last connection made executes every
\* task it is given and reports it (its mapper and reducer do not raise and
\* its process does not die), while the workers of the other connections
\* may stop reading at any point, with or without closing their socket.
\* The reactors are fair: asyncore.loop keeps calling the handlers of every
\* readable socket, and the lasting worker keeps doing so too.
Good == NumChan

GoodWorkerRecv(c) == WorkerRecv(c) /\ last'.ran # "raised"

LiveInit ==
    /\ job = "wordcount"
    /\ datasource = ("a" :> <<"x", "x">>) @@ ("b" :> <<"y">>)
    /\ tm = TaskManagerInit
    /\ listening = TRUE
    /\ sconn = [c \in Chan |-> "none"]
    /\ sauth = [c \in Chan |-> NoArg]
    /\ wconn = [c \in Chan |-> "none"]
    /\ wauth = [c \in Chan |-> NoArg]
    /\ wpass = [c \in Chan |-> Password]
    /\ kind = [c \in Chan |-> "none"]
    /\ toWorker = [c \in Chan |-> <<>>]
    /\ toMaster = [c \in Chan |-> <<>>]
    /\ injected = 0
    /\ issued = {}
    /\ accepted = {}
    /\ wire = [c \in Chan |-> <<>>]
    /\ proto = ProtocolInit
    /\ held = [c \in Chan |-> NoReturn]
    /\ last = NoEvent

LiveNext ==
    \E c \in Chan :
        \/ Accept(c)
        \/ MasterRecv(c)
        \/ c # Good /\ WorkerRecv(c)
        \/ c = Good /\ GoodWorkerRecv(c)
        \/ c # Good /\ WorkerCrash(c)
        \/ MasterSeesClose(c)

LiveFairness ==
    /\ \A c \in Chan : WF_vars(Accept(c))
    /\ \A c \in Chan : WF_vars(MasterRecv(c))
    /\ \A c \in Chan : WF_vars(MasterSeesClose(c))
    /\ WF_vars(GoodWorkerRecv(Good))

SpecLive == LiveInit /\ [][LiveNext]_vars /\ LiveFairness

\* ------------------------------------------- connections of other code
\* What an end that does not run this program can push: it does not know
\* the master's password; it can make up a nonce or send none, repeat any
\* nonce or proof that was sent to such an end on this or an earlier
\* connection, compute proofs with another password, and send any command
\* with or without a payload.
Overheard ==
    UNION {IF kind[c] = "rogue" THEN Range(toMaster[c])
           ELSE IF kind[c] = "outsider" THEN Range(toWorker[c])
           ELSE {} : c \in Chan}

SeenArgs(seen, cmd) == {f.arg : f \in {g \in seen : g.cmd = cmd}}

ForgedFrames(seen) ==
    {ArgFrame("challenge", n) : n \in {NonceX} \cup SeenArgs(seen, "challenge")}
    \cup {ArgFrame("auth", Hmac(WrongPassword, n)) : n \in SeenArgs(seen, "challenge")}
    \cup {ArgFrame("auth", p) : p \in SeenArgs(seen, "auth")}
    \cup {BareFrame("challenge"), BareFrame("disconnect")}

\* Towards the master: also done-reports and a command the master's tables
\* do not hold.
OutsiderFrames(seen) ==
    ForgedFrames(seen)
    \cup {DataFrame("mapdone", <<"b", ("y" :> <<1, 1>>)>>),
          DataFrame("reducedone", <<"y", 7>>),
          DataFrame("map", <<"a", <<"x">>>>)}

\* Towards a Client: also tasks and a command the Client's tables do not hold.
RogueFrames(seen) ==
    ForgedFrames(seen)
    \cup {DataFrame("map", <<"a", <<"x">>>>),
          DataFrame("reduce", <<"y", <<1>>>>),
          DataFrame("mapdone", <<"b", ("y" :> <<1, 1>>)>>)}

InjectToMaster(c) ==
    /\ kind[c] = "outsider"
    /\ sconn[c] = "open"
    /\ injected < MaxInject
    /\ \E f \in OutsiderFrames(Overheard) :
          /\ toMaster' = [toMaster EXCEPT ![c] = Append(@, f)]
          /\ last' = Event("inject", c, f, FALSE)
    /\ injected' = injected + 1
    /\ UNCHANGED <<datasource, job, tm, listening, sconn, sauth, wconn, wauth, wpass,
                   kind, toWorker, issued, held, accepted, wire, proto>>

InjectToWorker(c) ==
    /\ kind[c] = "rogue"
    /\ wconn[c] = "open"
    /\ injected < MaxInject
    /\ \E f \in RogueFrames(Overheard) :
          /\ toWorker' = [toWorker EXCEPT ![c] = Append(@, f)]
          /\ last' = Event("inject", c, f, FALSE)
    /\ injected' = injected + 1
    /\ UNCHANGED <<datasource, job, tm, listening, sconn, sauth, wconn, wauth, wpass,
                   kind, toMaster, issued, held, accepted, wire, proto>>

\* The connections of this specification are made one after the other: the
\* next one when both ends of the one before have closed or are not there.
Session(c) ==
    /\ \A d \in Chan : d < c => sconn[d] # "open" /\ wconn[d] # "open"
    /\ \E k \in {"client", "outsider", "rogue"} :
          \E pw \in (IF k = "client" THEN {Password, WrongPassword} ELSE {Password}) :
              Connect(c, k, pw)

\* The run of the spec's example dataset with the word count job.
AuthInit ==
    /\ job = "wordcount"
    /\ datasource = ("a" :> <<"x", "y", "x">>) @@ ("b" :> <<"y">>)
    /\ tm = TaskManagerInit
    /\ listening = TRUE
    /\ sconn = [c \in Chan |-> "none"]
    /\ sauth = [c \in Chan |-> NoArg]
    /\ wconn = [c \in Chan |-> "none"]
    /\ wauth = [c \in Chan |-> NoArg]
    /\ wpass = [c \in Chan |-> Password]
    /\ kind = [c \in Chan |-> "none"]
    /\ toWorker = [c \in Chan |-> <<>>]
    /\ toMaster = [c \in Chan |-> <<>>]
    /\ injected = 0
    /\ issued = {}
    /\ accepted = {}
    /\ wire = [c \in Chan |-> <<>>]
    /\ proto = ProtocolInit
    /\ held = [c \in Chan |-> NoReturn]
    /\ last = NoEvent

AuthNext ==
    \E c \in Chan :
        \/ Session(c)
        \/ MasterRecv(c)
        \/ WorkerRecv(c)
        \/ WorkerCrash(c)
        \/ MasterSeesClose(c)
        \/ WorkerSeesClose(c)
        \/ InjectToMaster(c)
        \/ InjectToWorker(c)

SpecAuth == AuthInit /\ [][AuthNext]_vars

\* ------------------------------------------- bytes to an authenticated end
\* One end of a connection after its handshake calls send_command up to
\* MaxFrames times, each time with no argument, with an argument to
\* challenge, or with a pair to pickle, as the callers in the program do
\* (start_new_task, call_map, call_reduce, respond_to_challenge); the socket
\* of the other end receives the bytes one at a time or all at once, and its
\* handle_read loop runs over what was received.
MaxFrames == 3

SendInputs ==
    { [cmd |-> "disconnect", data |-> NoData, arg |-> <<>>],
      [cmd |-> "challenge", data |-> NoData, arg |-> <<"1", "2">>],
      [cmd |-> "challenge", data |-> NoData, arg |-> <<"a", "b">>],
      [cmd |-> "map", data |-> << <<"a">>, <<"x">> >>, arg |-> <<>>],
      [cmd |-> "mapdone", data |-> << <<"7">>, <<"x", " ", "y", ":", "1">> >>,
       arg |-> <<>>] }

notProto == <<datasource, job, tm, listening, sconn, sauth, wconn, wauth, wpass,
              kind, toWorker, toMaster, injected, issued, held,
              accepted, wire, last>>

ProtoSend ==
    /\ Len(proto.sent) < MaxFrames
    /\ \E f \in SendInputs :
          proto' = [proto EXCEPT
                       !.pipe = @ \o send_command(f.cmd, f.data, f.arg),
                       !.sent = Append(@, Dispatch(f.cmd, f.arg, f.data))]
    /\ UNCHANGED notProto

ProtoArrive(n) ==
    /\ ~proto.closed
    /\ n \in 1..Len(proto.pipe)
    /\ proto' = [proto EXCEPT
                    !.ac_in_buffer = @ \o SubSeq(proto.pipe, 1, n),
                    !.pipe = SubSeq(@, n + 1, Len(@))]
    /\ UNCHANGED notProto

ProtoRead ==
    /\ ~proto.closed
    /\ proto.auth = DoneStr
    /\ proto.ac_in_buffer # <<>>
    /\ proto' = handle_read(proto)
    /\ UNCHANGED notProto

ByteInit == LiveInit

ByteNext ==
    \/ ProtoSend
    \/ \E n \in {1, Len(proto.pipe)} : ProtoArrive(n)
    \/ ProtoRead

SpecBytes == ByteInit /\ [][ByteNext]_vars

\* ================================================================ claims
\* The reference result: the map output of every dataset key, once each,
\* grouped by emitted key, then reduced once per emitted key.
RECURSIVE Grouped(_, _)
Grouped(ik, keys) ==
    IF keys = <<>> THEN <<>>
    ELSE LET out == MapOutput(job, Head(keys), datasource[Head(keys)]) IN
         (IF ik \in DOMAIN out THEN out[ik] ELSE <<>>) \o Grouped(ik, Tail(keys))

AllKeys == SeqOfKeys(Cardinality(DOMAIN datasource), 1)
EmittedKeys(keys) ==
    UNION {DOMAIN MapOutput(job, k, datasource[k]) : k \in Range(keys)}
Reference ==
    [ik \in EmittedKeys(AllKeys) |-> ReduceOutput(job, ik, Grouped(ik, AllKeys))]

SameBag(a, b) ==
    /\ Len(a) = Len(b)
    /\ \A v \in Range(a) \cup Range(b) : Count(v, a) = Count(v, b)

\* C1: whenever the phase is FINISHED, Final Results are the reference
\* result of the dataset: one entry per emitted key, holding the reduction
\* of that key's values, every dataset key's map output counted once.
C1_FinalResults ==
    tm.state = "FINISHED" =>
        /\ DOMAIN tm.results = DOMAIN Reference
        /\ \A ik \in DOMAIN Reference : tm.results[ik] = Reference[ik]

\* The run of the dataset {a: "y", b: "y"} with the word count job has
\* finished with y -> 2, one value from each dataset key.
C1_Witness ==
    /\ tm.state = "FINISHED"
    /\ job = "wordcount"
    /\ DOMAIN datasource = {"a", "b"}
    /\ datasource["a"] = <<"y">> /\ datasource["b"] = <<"y">>
    /\ DOMAIN tm.results = {"y"}
    /\ tm.results["y"] = 2

\* C3: the values assigned to the phase, in order, are always a prefix of
\* START, MAPPING, REDUCING, FINISHED, and the phase is the last of them:
\* no phase is entered twice, skipped, or left for an earlier one.
C3_PhaseOrder ==
    /\ Len(tm.phases) \in 1..Len(TASK)
    /\ \A i \in DOMAIN tm.phases : tm.phases[i] = TASK[i]
    /\ tm.state = tm.phases[Len(tm.phases)]

\* A run has gone through all four phases and has reduced something.
C3_Witness ==
    /\ tm.phases = TASK
    /\ DOMAIN tm.results # {}
    /\ last.task = "disconnect"

\* C2 (as claimed): a ServerChannel that next_task has returned a MAP or
\* REDUCE task for is authenticated: it has received a valid AUTH proof for
\* the master's nonce.
C2_NoTaskBeforeAuth ==
    \A c \in Chan : held[c].cmd \in {"map", "reduce"} => sauth[c] = DoneStr

\* C4 (as claimed): a Client runs its mapper or reducer only in a handler that found
\* self.auth "Done"; self.auth becomes "Done" only when the Client handles an
\* AUTH frame whose proof is the hmac of its own nonce; a MAP or REDUCE frame
\* handled in any other state runs nothing, sends nothing and closes the
\* connection; and on a connection to the master with the master's password
\* every task frame is handled after the AUTH reply, in the "Done" state.
C4_RunsOnlyAuthenticated ==
    [][\A c \in Chan :
        /\ (wauth[c] # DoneStr /\ wauth'[c] = DoneStr) =>
              /\ wauth[c] = NonceW(c)
              /\ toWorker[c] # <<>>
              /\ Head(toWorker[c]) = ArgFrame("auth", Hmac(wpass[c], NonceW(c)))
        /\ (last'.op = "worker_recv" /\ last'.c = c) =>
              /\ last'.ran # "" => wauth[c] = DoneStr
              /\ (last'.cmd \in {"map", "reduce"} /\ wauth[c] # DoneStr) =>
                    /\ last'.ran = ""
                    /\ wconn'[c] = "closed"
                    /\ toMaster' = toMaster
              /\ (last'.cmd \in {"map", "reduce"} /\ kind[c] = "client"
                                                /\ wpass[c] = Password) =>
                    wauth[c] = DoneStr
      ]_vars

\* C5: on either end, handling a frame that arrives before the end is
\* authenticated and is not challenge, auth or disconnect closes that end,
\* leaves the TaskManager and the listening socket as they were, has
\* next_task return nothing and pushes no frame.
C5_UnauthedFailsClosed ==
    [][(/\ last'.op \in {"master_recv", "worker_recv"}
        /\ ~last'.authed
        /\ last'.cmd \notin {"challenge", "auth", "disconnect"}) =>
           /\ tm' = tm /\ listening' = listening
           /\ issued' = issued /\ held' = held
           /\ last'.op = "master_recv" =>
                 sconn'[last'.c] = "closed" /\ toWorker' = toWorker
           /\ last'.op = "worker_recv" =>
                 wconn'[last'.c] = "closed" /\ toMaster' = toMaster
      ]_vars

\* During the map phase a ServerChannel that is not authenticated was sent
\* a mapdone report for a key in flight, and has closed.
C5_Witness ==
    /\ last.op = "master_recv" /\ last.cmd = "mapdone" /\ ~last.authed
    /\ last.closed /\ sconn[last.c] = "closed"
    /\ tm.state = "MAPPING" /\ last.key \in tm.working_maps

\* The dataset keys that were dispatched and are no longer in the map
\* working set.
RemovedMapKeys(t) ==
    IF HasMapAttrs(t)
    THEN {k \in DOMAIN datasource : k \notin Range(t.map_iter) /\ k \notin t.working_maps}
    ELSE {}

\* The results a further report for key k may carry: the mapper's output
\* for k, and others.
FurtherResults(k) ==
    {MapOutput(job, k, datasource[k]), <<>>, ("y" :> <<1, 1>>), ("z" :> <<5>>)}

C6_MapDoneDiscards ==
    \A k \in RemovedMapKeys(tm) : \A res \in FurtherResults(k) :
        LET t == map_done(tm, <<k, res>>) IN
            t.map_results = tm.map_results /\ t.working_maps = tm.working_maps

C6_HandlerDiscards ==
    \A k \in RemovedMapKeys(tm) :
        (last'.op = "master_recv" /\ last'.cmd = "mapdone" /\ last'.authed
                                  /\ last'.key = k) =>
            /\ tm'.map_results = tm.map_results
            /\ tm'.working_maps = tm.working_maps

\* C6: once a dataset key was dispatched and is no longer in the map
\* working set, map_done for that key, with the mapper's output or with any
\* other result, leaves Intermediate Results and the map working set as
\* they were; so does the whole handler of an authenticated channel's
\* mapdone report for it.
C6_DuplicateIgnored == []C6_MapDoneDiscards /\ [][C6_HandlerDiscards]_vars

\* A second mapdone report for a key has just been handled, after the
\* first one put its values into Intermediate Results.
C6_Witness ==
    /\ last.op = "master_recv" /\ last.cmd = "mapdone" /\ last.authed
    /\ last.report = "discarded"
    /\ last.key \in DOMAIN datasource
    /\ DOMAIN MapOutput(job, last.key, datasource[last.key]) # {}

\* C7 (as claimed): every mapdone report of a worker that was given the
\* key is appended to Intermediate Results, also the report of the second
\* of two workers that were both given the key.
C7_BothAppended ==
    [][(/\ last'.op = "master_recv" /\ last'.cmd = "mapdone" /\ last'.authed
        /\ held[last'.c].cmd = "map"
        /\ held[last'.c].data[1] = last'.key) =>
           tm'.map_results =
               ExtendResults(tm.map_results, Head(toMaster[last'.c]).data[2])
      ]_vars

\* The dataset keys whose report was accepted: dispatched, and no longer in
\* the map working set.
AcceptedKeys(t) ==
    SelectSeq(AllKeys, LAMBDA k : k \notin Range(t.map_iter) /\ k \notin t.working_maps)

\* C7 (amended): Intermediate Results hold the map output of every key
\* with an accepted report exactly once, however many workers reported it.
C7_CountedOnce ==
    HasMapAttrs(tm) =>
        /\ DOMAIN tm.map_results = EmittedKeys(AcceptedKeys(tm))
        /\ \A ik \in DOMAIN tm.map_results :
              SameBag(tm.map_results[ik], Grouped(ik, AcceptedKeys(tm)))

\* Two workers were given key b of {a: "x x", b: "y"}; both reported
\* (b, {y: [1]}); the second report was discarded and y -> [1].
C7_Witness ==
    /\ last.op = "master_recv" /\ last.cmd = "mapdone" /\ last.key = "b"
    /\ last.report = "discarded"
    /\ job = "wordcount" /\ DOMAIN datasource = {"a", "b"}
    /\ datasource["a"] = <<"x", "x">> /\ datasource["b"] = <<"y">>
    /\ DOMAIN tm.map_results = {"x", "y"} /\ tm.map_results["y"] = <<1>>

\* The done-reports pushed and not yet handled by the master.
ReportsInFlight(cmd) ==
    UNION {{f \in Range(toMaster[c]) : f.cmd = cmd} : c \in {d \in Chan : sconn[d] = "open"}}

\* In the tail of a phase every request returns the one key left.
C8_TailRequests ==
    /\ \A k \in DOMAIN datasource :
          (tm.state = "MAPPING" /\ tm.map_iter = <<>> /\ tm.working_maps = {k}) =>
             \A t \in {tm} \cup {map_done(tm, f.data) :
                                  f \in {g \in ReportsInFlight("mapdone") : g.data[1] # k}} :
                \A o \in next_task(t) :
                   /\ o.ret.cmd = "map" /\ o.ret.data[1] = k
                   /\ o.tm.state = "MAPPING"
                   /\ \E i \in issued : i.cmd = "map" /\ i.data[1] = k
                   /\ \A i \in issued : (i.cmd = "map" /\ i.data[1] = k) => i = o.ret
    /\ \A k \in DOMAIN tm.map_results :
          (tm.state = "REDUCING" /\ tm.reduce_iter = <<>> /\ tm.working_reduces = {k}) =>
             \A t \in {tm} \cup {reduce_done(tm, f.data) :
                                  f \in {g \in ReportsInFlight("reducedone") : g.data[1] # k}} :
                \A o \in next_task(t) :
                   /\ o.ret.cmd = "reduce" /\ o.ret.data[1] = k
                   /\ o.tm.state = "REDUCING"
                   /\ \E i \in issued : i.cmd = "reduce" /\ i.data[1] = k
                   /\ \A i \in issued : (i.cmd = "reduce" /\ i.data[1] = k) => i = o.ret

\* The phase leaves the tail only in the handler that accepts the report
\* for the one key left.
C8_TailEnds ==
    /\ \A k \in DOMAIN datasource :
          (/\ tm.state = "MAPPING" /\ tm.map_iter = <<>> /\ tm.working_maps = {k}
           /\ tm' # tm) =>
              /\ last'.op = "master_recv" /\ last'.cmd = "mapdone"
              /\ last'.key = k /\ last'.report = "accepted"
    /\ (tm.state = "REDUCING" /\ tm.reduce_iter = <<>>) =>
          \A k \in tm.working_reduces :
              (tm.working_reduces = {k} /\ tm' # tm) =>
                 /\ last'.op = "master_recv" /\ last'.cmd = "reducedone"
                 /\ last'.key = k /\ last'.report = "accepted"

\* C8: in MAPPING (REDUCING) with every key dispatched and k the only key
\* in the working set, next_task returns a task for k, with the value of
\* every earlier dispatch of k, and keeps the phase, also after a report in
\* flight for another key is handled; and the TaskManager changes only in
\* the handler that accepts the report for k.
C8_Straggler == []C8_TailRequests /\ [][C8_TailEnds]_vars

\* Of two keys one is reported and the other, the straggler, has just been
\* given to a second worker while the first still holds it.
C8_Witness ==
    \E k \in DOMAIN datasource :
        /\ Cardinality(DOMAIN datasource) >= 2
        /\ tm.state = "MAPPING" /\ tm.map_iter = <<>> /\ tm.working_maps = {k}
        /\ last.op = "master_recv" /\ last.task = "map" /\ last.tkey = k
        /\ \E c, d \in Chan :
              /\ c # d
              /\ held[c].cmd = "map" /\ held[c].data[1] = k
              /\ held[d].cmd = "map" /\ held[d].data[1] = k
              /\ wconn[c] = "open" /\ wconn[d] = "open"

\* C9 (as claimed): after a mapper or reducer raised on a worker, the
\* worker's connection is open and the last frame it pushed is the
\* done-report for the task's key.
C9_FailureReported ==
    last.ran = "raised" =>
        /\ wconn[last.c] = "open"
        /\ toMaster[last.c] # <<>>
        /\ LET f == toMaster[last.c][Len(toMaster[last.c])] IN
              f.cmd \in {"mapdone", "reducedone"} /\ f.data[1] = last.key

\* C10: a step in which a ServerChannel closes leaves the TaskManager as it
\* was; the task the channel was given last, if its key is in the working
\* set, is still there and next_task can return it again once every key
\* has been dispatched.
C10_CloseKeepsTasks ==
    [][\A c \in Chan :
        (sconn[c] = "open" /\ sconn'[c] = "closed") =>
           /\ tm' = tm
           /\ (held[c].cmd = "map" /\ held[c].data[1] \in tm.working_maps) =>
                 /\ held[c].data[1] \in tm'.working_maps
                 /\ tm'.map_iter = <<>> => \E o \in next_task(tm') : o.ret = held[c]
           /\ (held[c].cmd = "reduce" /\ held[c].data[1] \in tm.working_reduces) =>
                 /\ held[c].data[1] \in tm'.working_reduces
                 /\ tm'.reduce_iter = <<>> => \E o \in next_task(tm') : o.ret = held[c]
      ]_vars

\* A ServerChannel has just closed during the map phase while the key it
\* was given last is in the working set.
C10_Witness ==
    /\ last.op = "master_eof" /\ sconn[last.c] = "closed"
    /\ tm.state = "MAPPING"
    /\ held[last.c].cmd = "map" /\ held[last.c].data[1] \in tm.working_maps

\* C11: in the run with one lasting worker and fair reactors the phase
\* reaches FINISHED, whatever the other workers do after they were given
\* tasks: report, stay silent with the socket open, or die.
C11_Completion == <>(tm.state = "FINISHED")

\* The run has finished while another worker, authenticated and given a
\* task, has neither run it nor closed its socket.
C11_Witness ==
    /\ tm.state = "FINISHED"
    /\ \E c \in Chan \ {Good} :
          /\ sconn[c] = "open" /\ wconn[c] = "open"
          /\ held[c].cmd \in {"map", "reduce"}
          /\ toWorker[c] # <<>>
          /\ toWorker[c][Len(toWorker[c])] = TaskFrame(held[c])

\* C12 (as claimed): once the phase is FINISHED, every ServerChannel that
\* is open is in the end returned DISCONNECT by next_task (which
\* start_new_task then sends), unless it closes first; also a channel whose
\* worker sends nothing more.
C12_AllToldToDisconnect ==
    \A c \in Chan :
        (tm.state = "FINISHED" /\ sconn[c] = "open")
            ~> (held[c].cmd = "disconnect" \/ sconn[c] # "open")

\* The TaskManager as a handler can find it when it calls next_task: as it
\* is, or after the report of a frame in flight was handed to map_done or
\* reduce_done.
NextTaskInputs ==
    {tm} \cup {map_done(tm, f.data) : f \in ReportsInFlight("mapdone")}
         \cup {reduce_done(tm, f.data) : f \in ReportsInFlight("reducedone")}

\* next_task leaves MAPPING only with the iterator exhausted and the map
\* working set empty, and reaches FINISHED only with the reduce iterator
\* exhausted and the reduce working set empty.
C13_Guards ==
    \A t \in NextTaskInputs : \A o \in next_task(t) :
        /\ (t.state \in {"START", "MAPPING"} /\ o.tm.state \in {"REDUCING", "FINISHED"}) =>
              StartStep(t).map_iter = <<>> /\ StartStep(t).working_maps = {}
        /\ (t.state = "REDUCING" /\ o.tm.state = "FINISHED") =>
              t.reduce_iter = <<>> /\ t.working_reduces = {}
        /\ (t.state \in {"START", "MAPPING"} /\ o.tm.state = "FINISHED") =>
              DOMAIN StartStep(t).map_results = {}

\* In REDUCING and after, every dataset key was dispatched and had a
\* mapdone report accepted; in FINISHED every intermediate key was
\* dispatched, had a reducedone report accepted and has its entry in
\* Final Results.
C13_Reached ==
    /\ tm.state \in {"REDUCING", "FINISHED"} =>
          /\ tm.map_iter = <<>> /\ tm.working_maps = {}
          /\ \A k \in DOMAIN datasource : [cmd |-> "mapdone", key |-> k] \in accepted
    /\ tm.state = "FINISHED" =>
          /\ tm.reduce_iter = <<>> /\ tm.working_reduces = {}
          /\ DOMAIN tm.results = DOMAIN tm.map_results
          /\ \A k \in DOMAIN tm.map_results :
                [cmd |-> "reducedone", key |-> k] \in accepted

\* The phase changes only in a handler of the master that calls next_task.
C13_OnlyInNextTask ==
    tm'.state # tm.state => last'.op = "master_recv" /\ last'.task # ""

\* C13: the phase moves MAPPING to REDUCING only in a next_task call that
\* finds every dataset key dispatched and the map working set empty, and
\* REDUCING to FINISHED only in one that finds every intermediate key
\* dispatched and the reduce working set empty; in REDUCING every dataset
\* key has had a mapdone accepted, in FINISHED every intermediate key has
\* its entry in Final Results.
C13_TransitionGuards == [](C13_Guards /\ C13_Reached) /\ [][C13_OnlyInNextTask]_vars

\* A run of two or more dataset keys and two or more intermediate keys has
\* reached FINISHED in the handler that accepted the last reducedone.
C13_Witness ==
    /\ tm.phases = TASK
    /\ Cardinality(DOMAIN datasource) >= 2 /\ Cardinality(DOMAIN tm.results) >= 2
    /\ last.op = "master_recv" /\ last.cmd = "reducedone"
    /\ last.report = "accepted" /\ last.task = "disconnect"

\* The keys next_task has returned in a task of the given command.
IssuedKeys(cmd) == {i.data[1] : i \in {j \in issued : j.cmd = cmd}}

\* The keys with an accepted report of the given command.
DoneKeys(cmd) == {a.key : a \in {b \in accepted : b.cmd = cmd}}

\* C14: every key in the map (reduce) working set was returned by
\* next_task in a map (reduce) task and has no accepted report; every key
\* so returned is either in the working set or has an accepted report,
\* never both; the keys with an accepted reducedone are the keys of Final
\* Results.
C14_WorkingSets ==
    /\ tm.working_maps \subseteq IssuedKeys("map")
    /\ tm.working_maps \cap DoneKeys("mapdone") = {}
    /\ tm.working_maps \cup DoneKeys("mapdone") = IssuedKeys("map")
    /\ tm.working_reduces \subseteq IssuedKeys("reduce")
    /\ tm.working_reduces \cap DoneKeys("reducedone") = {}
    /\ tm.working_reduces \cup DoneKeys("reducedone") = IssuedKeys("reduce")
    /\ DoneKeys("reducedone") = DOMAIN tm.results

\* In REDUCING one intermediate key is in the working set, given out twice
\* and not reported, and another has its accepted report in Final Results.
C14_Witness ==
    /\ tm.state = "REDUCING"
    /\ \E k \in tm.working_reduces :
          /\ k \notin DOMAIN tm.results
          /\ \E c, d \in Chan : c # d /\ held[c] = held[d]
                                 /\ held[c].cmd = "reduce" /\ held[c].data[1] = k
    /\ \E k \in DOMAIN tm.results : k \notin tm.working_reduces

\* C15 (as claimed): in every phase, when an authenticated channel reports
\* mapdone (reducedone) for a key that is not in the map (reduce) working
\* set, the report is discarded: map_done (reduce_done) returns without
\* raising, the channel stays open, and the TaskManager is changed by
\* nothing but the next_task call that follows.
C15_StrayReportDiscarded ==
    [][(/\ last'.op = "master_recv" /\ last'.authed
        /\ \/ last'.cmd = "mapdone" /\ last'.key \notin tm.working_maps
           \/ last'.cmd = "reducedone" /\ last'.key \notin tm.working_reduces) =>
           /\ last'.report = "discarded"
           /\ ~last'.closed
           /\ tm' \in {o.tm : o \in next_task(tm)}
      ]_vars

\* What reduce_done(t0, (k, v)) must have done to t0 when k is in the
\* reduce working set.
ReduceDoneEffect(t0, k, v) ==
    LET t == reduce_done(t0, <<k, v>>) IN
        /\ DOMAIN t.results = DOMAIN t0.results \cup {k}
        /\ t.results[k] = v
        /\ \A j \in DOMAIN t0.results \ {k} : t.results[j] = t0.results[j]
        /\ t.working_reduces = t0.working_reduces \ {k}
        /\ t.map_results = t0.map_results
        /\ t.working_maps = t0.working_maps
        /\ t.map_iter = t0.map_iter /\ t.reduce_iter = t0.reduce_iter
        /\ t.state = t0.state

\* A value that is not the reducer's for any key, and an entry Final
\* Results could hold from before, of the type of the job's values.
OtherValue == IF job = "wordcount" THEN 7 ELSE <<<<"z">>>>
EarlierValue == IF job = "wordcount" THEN 0 ELSE <<>>

\* reduce_done on the TaskManager as it is, and on it with an earlier entry
\* for the key, with the reducer's value and with another.
C16_Operator ==
    HasReduceAttrs(tm) =>
        \A k \in tm.working_reduces :
            \A v \in {ReduceOutput(job, k, tm.map_results[k]), OtherValue} :
                \A t0 \in {tm, [tm EXCEPT !.results = (k :> EarlierValue) @@ @]} :
                    ReduceDoneEffect(t0, k, v)

\* The handler of an accepted reducedone: reduce_done on the payload, then
\* next_task; the entry for the key is the reported value after it.
C16_Handler ==
    (/\ last'.op = "master_recv" /\ last'.cmd = "reducedone"
     /\ last'.report = "accepted") =>
        LET data == Head(toMaster[last'.c]).data IN
            /\ data[1] \in tm.working_reduces
            /\ tm' \in {o.tm : o \in next_task(reduce_done(tm, data))}
            /\ tm'.results[data[1]] = data[2]
            /\ data[1] \notin tm'.working_reduces
            /\ \A j \in DOMAIN tm.results \ {data[1]} : tm'.results[j] = tm.results[j]
            /\ tm'.map_results = tm.map_results
            /\ tm'.working_maps = tm.working_maps

\* C16: reduce_done for a key k of the reduce working set with value v
\* sets Final Results[k] to v, whatever entry was there, removes k from the
\* reduce working set and leaves the other entries, Intermediate Results,
\* the map working set, the iterators and the phase as they were; the
\* handler of an accepted reducedone does this and then calls next_task.
C16_ReduceDoneFrame == []C16_Operator /\ [][C16_Handler]_vars

\* The count of a word was accepted into Final Results while another
\* intermediate key is still in the reduce working set.
C16_Witness ==
    /\ last.op = "master_recv" /\ last.cmd = "reducedone" /\ last.report = "accepted"
    /\ job = "wordcount" /\ tm.state = "REDUCING"
    /\ DOMAIN tm.results = {last.key} /\ tm.results[last.key] = 2
    /\ tm.working_reduces # {}

\* The frames of a handshake between two ends with the same password.
Handshake ==
    << [from |-> "master", cmd |-> "challenge"],
       [from |-> "worker", cmd |-> "auth"],
       [from |-> "worker", cmd |-> "challenge"],
       [from |-> "master", cmd |-> "auth"],
       [from |-> "master", cmd |-> "task"] >>

IsPrefix(w, h) == Len(w) <= Len(h) /\ \A i \in 1..Len(w) : w[i] = h[i]

\* What was sent on a connection is a prefix of the handshake, so each end
\* sends one challenge and the worker's follows the master's; the master's
\* auth reply is never sent without the first task after it; the master is
\* authenticated from the worker's auth on and the worker only at the end.
C17_Order ==
    \A c \in Chan :
        /\ IsPrefix(wire[c], Handshake)
        /\ Len(wire[c]) # 4
        /\ sauth[c] = DoneStr => Len(wire[c]) >= 3
        /\ Len(wire[c]) = 5 => sauth[c] = DoneStr
        /\ wauth[c] = DoneStr => Len(wire[c]) = 5

\* The master becomes authenticated in its handler of the worker's auth;
\* it sends its auth reply and the first task in its handler of the
\* worker's challenge, while the worker is not authenticated; the worker
\* becomes authenticated in its handler of the master's auth.
C17_Handlers ==
    \A c \in Chan :
        /\ (sauth[c] # DoneStr /\ sauth'[c] = DoneStr) =>
              last' = [Event("master_recv", c, Head(toMaster[c]), FALSE) EXCEPT !.cmd = "auth"]
        /\ (Len(wire[c]) < 5 /\ Len(wire'[c]) = 5) =>
              /\ last'.op = "master_recv" /\ last'.c = c /\ last'.cmd = "challenge"
              /\ last'.authed /\ last'.task # ""
              /\ wauth[c] # DoneStr /\ wauth'[c] # DoneStr
        /\ (wauth[c] # DoneStr /\ wauth'[c] = DoneStr) =>
              last' = [Event("worker_recv", c, Head(toWorker[c]), FALSE) EXCEPT !.cmd = "auth"]

\* C17: between two ends with the same password the frames are sent in
\* the order master challenge, worker auth, worker challenge, master auth,
\* first task; the master is authenticated on the worker's auth and sends
\* the first task with its own auth reply, before the worker has verified
\* it; the worker sends one challenge, after the master's; and once the
\* lasting worker is connected both ends become authenticated.
C17_HandshakeOrder ==
    /\ []C17_Order
    /\ [][C17_Handlers]_vars
    /\ (kind[Good] = "client") ~> (sauth[Good] = DoneStr /\ wauth[Good] = DoneStr)

\* The worker has just verified the master's auth reply; the first task,
\* sent right after that reply, is the next frame it will read.
C17_Witness ==
    \E c \in Chan :
        /\ last.op = "worker_recv" /\ last.c = c /\ last.cmd = "auth"
        /\ wire[c] = Handshake
        /\ sauth[c] = DoneStr /\ wauth[c] = DoneStr
        /\ toWorker[c] # <<>> /\ Head(toWorker[c]).cmd = "map"

\* The number of frames of a queue whose command is one of cmds.
CountCmds(q, cmds) == Cardinality({i \in DOMAIN q : q[i].cmd \in cmds})

TaskCmds == {"map", "reduce", "disconnect"}
ReportCmds == {"mapdone", "reducedone"}

\* On every connection at most one frame is a task not yet read by the
\* worker or the report of one not yet read by the master.
C18_OneOutstanding ==
    \A c \in Chan :
        CountCmds(toWorker[c], TaskCmds) + CountCmds(toMaster[c], ReportCmds) <= 1

\* A handler of the master calls start_new_task, and so sends one frame
\* with what next_task returned, exactly when it handles the challenge of
\* an authenticated channel or a done-report, accepted or discarded; no
\* other step adds a task frame to a connection.
C18_OnePerRequest ==
    /\ last'.op = "master_recv" =>
          /\ last'.task # "" <=>
                /\ last'.authed
                /\ \/ last'.cmd = "challenge"
                   \/ last'.cmd \in ReportCmds /\ last'.report \in {"accepted", "discarded"}
          /\ \A c \in Chan :
                CountCmds(toWorker'[c], TaskCmds) =
                    CountCmds(toWorker[c], TaskCmds)
                    + (IF c = last'.c /\ last'.task # "" /\ wconn[c] = "open" THEN 1 ELSE 0)
    /\ last'.op # "master_recv" =>
          \A c \in Chan :
              CountCmds(toWorker'[c], TaskCmds) <= CountCmds(toWorker[c], TaskCmds)

\* C18: with workers that follow the protocol the master has at most one
\* task outstanding on a channel; it sends exactly one task or disconnect
\* when the handshake completes and for each done-report it handles,
\* accepted or discarded, and none otherwise.
C18_OneTaskAtATime == []C18_OneOutstanding /\ [][C18_OnePerRequest]_vars

\* The master has just discarded a mapdone report and has sent the worker
\* its next task, the only one outstanding on the channel.
C18_Witness ==
    /\ last.op = "master_recv" /\ last.cmd = "mapdone" /\ last.report = "discarded"
    /\ last.task \in TaskCmds
    /\ wconn[last.c] = "open"
    /\ CountCmds(toWorker[last.c], TaskCmds) = 1
    /\ toMaster[last.c] = <<>>

\* C19 (as claimed): the listening socket is closed only when the phase
\* is FINISHED and no ServerChannel is open; while a ServerChannel is open
\* the master is listening.
C19_ListeningUntilAllClosed ==
    ~listening => tm.state = "FINISHED" /\ \A c \in Chan : sconn[c] # "open"

\* The frame the reader is in the middle of, or would read next: the first
\* send_command call not dispatched yet.
Pending == proto.sent[Len(proto.dispatched) + 1]

\* Everything dispatched is, in order, what was sent; once every byte sent
\* has been read, all of it was dispatched and the reader is at rest.
C20_SameSequence ==
    /\ IsPrefix(proto.dispatched, proto.sent)
    /\ ~proto.closed
    /\ proto.pipe = <<>> /\ proto.ac_in_buffer = <<>>
       => /\ proto.dispatched = proto.sent
          /\ proto.buffer = <<>>
          /\ proto.mid_command = <<>>
          /\ proto.terminator = Newline

\* While a command is pending the reader counts bytes, the command pending
\* is one sent with a payload, never challenge, and the bytes collected and
\* the bytes still to read add up to the length its header declared.
C20_PayloadPending ==
    proto.mid_command # <<>>
    => /\ proto.terminator.num
       /\ Len(proto.dispatched) < Len(proto.sent)
       /\ proto.mid_command = Spelling[Pending.cmd]
       /\ Pending.cmd # "challenge"
       /\ Pending.data # NoData
       /\ Len(proto.buffer) + proto.terminator.n = Len(dumps(Pending.data))

\* A step with a command pending dispatches nothing and leaves it pending,
\* or has read the last of the declared bytes and no more, dispatches the
\* command with the payload, clears the marker and reads lines again.
C20_PayloadStep ==
    proto.mid_command # <<>> /\ proto'.dispatched # proto.dispatched
    => /\ proto'.dispatched =
              Append(proto.dispatched, Dispatch(Pending.cmd, <<>>, Pending.data))
       /\ Len(proto.ac_in_buffer) - Len(proto'.ac_in_buffer) = proto.terminator.n
       /\ proto'.mid_command = <<>>
       /\ proto'.terminator = Newline

\* A step that dispatches challenge passes its argument on as it was sent
\* and leaves the reader reading lines with no command pending.
C20_ChallengeStep ==
    /\ proto'.dispatched # proto.dispatched
    /\ proto'.dispatched[Len(proto'.dispatched)].cmd = "challenge"
    => /\ proto'.dispatched[Len(proto'.dispatched)].arg = Pending.arg
       /\ proto'.mid_command = <<>>
       /\ proto'.terminator = Newline

\* C20: on an authenticated channel the frames sent with send_command (bare
\* commands, challenge with an argument, commands with a payload) are
\* dispatched as the same (command, data) pairs in the same order; a header
\* with a payload dispatches nothing until exactly the declared number of
\* bytes has been read, after which the pending-command marker is cleared
\* and the reader is back on newlines; the argument of challenge is never
\* taken as a payload length.
C20_FramingRoundTrip ==
    /\ [](C20_SameSequence /\ C20_PayloadPending)
    /\ [][C20_PayloadStep /\ C20_ChallengeStep]_vars

\* Three frames were sent and dispatched, every byte read: among them a
\* challenge whose argument is a number and a payload of ten bytes.
C20_Witness ==
    /\ Len(proto.sent) = MaxFrames
    /\ proto.dispatched = proto.sent
    /\ proto.pipe = <<>> /\ proto.ac_in_buffer = <<>>
    /\ \E i \in 1..Len(proto.dispatched) :
          /\ proto.dispatched[i].cmd = "challenge"
          /\ ~IntRaises(proto.dispatched[i].arg)
    /\ \E i \in 1..Len(proto.dispatched) :
          /\ proto.dispatched[i].cmd = "mapdone"
          /\ Len(dumps(proto.dispatched[i].data)) = 10

\* After MAPPING no call on the TaskManager as it is changes Intermediate
\* Results: next_task, map_done for any dataset key with the mapper's
\* output or another result, reduce_done for any intermediate key with the
\* reducer's value or another.
C21_Calls ==
    tm.state \in {"REDUCING", "FINISHED"} =>
        /\ \A o \in next_task(tm) : o.tm.map_results = tm.map_results
        /\ \A k \in DOMAIN datasource : \A res \in FurtherResults(k) :
              map_done(tm, <<k, res>>).map_results = tm.map_results
        /\ \A k \in DOMAIN tm.map_results :
              \A v \in {ReduceOutput(job, k, tm.map_results[k]), OtherValue} :
                  reduce_done(tm, <<k, v>>).map_results = tm.map_results

\* Every reduce task next_task has returned carries the key's entry of
\* Intermediate Results as it is now.
C21_SameValues ==
    \A i \in issued :
        i.cmd = "reduce" =>
            /\ i.data[1] \in DOMAIN tm.map_results
            /\ i.data[2] = tm.map_results[i.data[1]]

\* No step taken after MAPPING changes Intermediate Results.
C21_Steps ==
    tm.state \in {"REDUCING", "FINISHED"} => tm'.map_results = tm.map_results

\* C21: Intermediate Results are frozen once the phase has left MAPPING: in
\* REDUCING and FINISHED no next_task, map_done (late and stale mapdone
\* reports included) or reduce_done changes them, so every issue and
\* re-issue of a reduce key carries the same value sequence.
C21_IntermediateFrozen ==
    /\ [](C21_Calls /\ C21_SameValues)
    /\ [][C21_Steps]_vars

\* In REDUCING the mapdone report of a worker whose map task another worker
\* had reported before was just handled and discarded, and its next_task
\* gave out again the one intermediate key, which has two values and is
\* still in the reduce working set.
C21_Witness ==
    /\ tm.state = "REDUCING"
    /\ last.op = "master_recv" /\ last.cmd = "mapdone" /\ last.authed
    /\ last.report = "discarded"
    /\ DOMAIN MapOutput(job, last.key, datasource[last.key]) # {}
    /\ last.task = "reduce"
    /\ DOMAIN tm.map_results = {last.tkey}
    /\ Len(tm.map_results[last.tkey]) >= 2
    /\ tm.reduce_iter = <<>> /\ last.tkey \in tm.working_reduces
====
